---- MODULE Spec2Model ----
(***************************************************************************)
(* search_logic of app.py (lines 134-185): the hybrid search of the Sinch   *)
(* Connector Tool.  One call of search_logic is followed from its entry to  *)
(* its return; Init draws the call's four arguments from bounded sets.      *)
(*                                                                          *)
(* Text is a sequence of one-character strings, so that lower-casing,       *)
(* splitting, whole-word matching and integer extraction are computed on    *)
(* characters as the regular expressions of the code compute them.          *)
(* A record's id is its index label: load_data reads the sheet with the     *)
(* default RangeIndex, so the record stored at position p (1-based here)    *)
(* has id p - 1, and filtering keeps the labels.                            *)
(***************************************************************************)
EXTENDS Integers, Sequences, FiniteSets, TLC

VARIABLES df, query, model, department_filter,
          pc, rows, keywords, kwi, score, top_candidates,
          calls, response, result, message, returned_at

vars == <<df, query, model, department_filter, pc, rows, keywords, kwi,
          score, top_candidates, calls, response, result, message, returned_at>>

(***************************************************************************)
(* Characters                                                              *)
(***************************************************************************)
UpperCase == <<"A", "B", "C", "D", "E", "F", "G", "H", "I", "J", "K", "L", "M",
               "N", "O", "P", "Q", "R", "S", "T", "U", "V", "W", "X", "Y", "Z">>

LowerCase == <<"a", "b", "c", "d", "e", "f", "g", "h", "i", "j", "k", "l", "m",
               "n", "o", "p", "q", "r", "s", "t", "u", "v", "w", "x", "y", "z">>

Digits == <<"0", "1", "2", "3", "4", "5", "6", "7", "8", "9">>

\* A run of decimal digits longer than the limit the interpreter puts on
\* int(str) (sys.get_int_max_str_digits(), 4300 by default where the limit
\* exists), written as one element of a text.
LongRun == "9...9"

Range(s) == {s[i] : i \in DOMAIN s}

LowerOf == [c \in Range(UpperCase) |->
               LowerCase[CHOOSE i \in DOMAIN UpperCase : UpperCase[i] = c]]

\* str.lower() on one character
Lower(c) == IF c \in DOMAIN LowerOf THEN LowerOf[c] ELSE c

LowerText(s) == [i \in DOMAIN s |-> Lower(s[i])]

DigitChars == Range(Digits) \cup {LongRun}

WordChars == Range(UpperCase) \cup Range(LowerCase) \cup {"_"} \cup DigitChars

\* \d of the re module
IsDigit(c) == c \in DigitChars

\* \w of the re module: letters, digits and the underscore
IsWordChar(c) == c \in WordChars

(***************************************************************************)
(* Tokenization, lines 143-148                                             *)
(***************************************************************************)
stop_words ==
    { <<"w", "h", "o">>, <<"c", "a", "n">>,
      <<"h", "e", "l", "p">>, <<"w", "i", "t", "h">>,
      <<"q", "u", "e", "s", "t", "i", "o", "n", "s">>, <<"a", "b", "o", "u", "t">>,
      <<"f", "i", "n", "d">>, <<"m", "e">>,
      <<"a">>, <<"a", "n">>,
      <<"t", "h", "e">>, <<"i">>,
      <<"h", "a", "v", "e">>, <<"q", "u", "e", "s", "t", "i", "o", "n">>,
      <<"w", "h", "e", "t", "h", "e", "r">>, <<"s", "i", "n", "c", "h">>,
      <<"o", "f", "f", "e", "r", "s">>, <<"s", "o", "l", "u", "t", "i", "o", "n">>,
      <<"s", "o", "l", "u", "t", "i", "o", "n", "s">>,
      <<"c", "o", "m", "p", "l", "i", "a", "n", "t">>,
      <<"c", "o", "m", "p", "l", "i", "a", "n", "c", "e">>,
      <<"l", "o", "o", "k", "i", "n", "g">>,
      <<"n", "e", "e", "d">>, <<"k", "n", "o", "w">>,
      <<"e", "x", "p", "e", "r", "t">> }

\* re.split(r'\W+', s): the pieces of s between its maximal runs of non-word
\* characters; a separator at either end of s leaves an empty piece there.
\* cur is the piece being read, insep whether the last character read was a
\* separator.
RECURSIVE SplitFrom(_, _, _, _)
SplitFrom(s, i, cur, insep) ==
    IF i > Len(s) THEN <<cur>>
    ELSE IF IsWordChar(s[i]) THEN SplitFrom(s, i + 1, Append(cur, s[i]), FALSE)
    ELSE IF insep THEN SplitFrom(s, i + 1, cur, TRUE)
    ELSE <<cur>> \o SplitFrom(s, i + 1, <<>>, TRUE)

ReSplit(s) == SplitFrom(s, 1, <<>>, FALSE)

\* [w for w in pieces if w and w not in stop_words]
RECURSIVE KeepKeywords(_)
KeepKeywords(pieces) ==
    IF pieces = <<>> THEN <<>>
    ELSE IF Head(pieces) # <<>> /\ Head(pieces) \notin stop_words
         THEN <<Head(pieces)>> \o KeepKeywords(Tail(pieces))
         ELSE KeepKeywords(Tail(pieces))

\* the stop-word test inverted: w in stop_words
RECURSIVE KeepStopWords(_)
KeepStopWords(pieces) ==
    IF pieces = <<>> THEN <<>>
    ELSE IF Head(pieces) # <<>> /\ Head(pieces) \in stop_words
         THEN <<Head(pieces)>> \o KeepStopWords(Tail(pieces))
         ELSE KeepStopWords(Tail(pieces))

KeywordsInverted(q) == KeepStopWords(ReSplit(LowerText(q)))

Keywords(q) == KeepKeywords(ReSplit(LowerText(q)))

(***************************************************************************)
(* Whole-word matching and the weights, lines 156-161                      *)
(***************************************************************************)
\* \b between positions i-1 and i of s: exactly one of the two sides is a
\* word character (the outside of s counts as a non-word character)
WordBoundary(s, i) ==
    LET before == i > 1 /\ IsWordChar(s[i - 1])
        after  == i <= Len(s) /\ IsWordChar(s[i])
    IN  before # after

\* the pattern without its two \b
ContainsSubstring(s, kw) ==
    \E i \in 1..(Len(s) - Len(kw) + 1) :
        \A j \in 1..Len(kw) : Lower(s[i + j - 1]) = Lower(kw[j])

\* re.search(r'\b' + re.escape(kw) + r'\b', s, re.IGNORECASE) finds a match.
\* kw holds word characters only, which re.escape leaves as they are.
Contains(s, kw) ==
    \E i \in 1..(Len(s) - Len(kw) + 1) :
        /\ \A j \in 1..Len(kw) : Lower(s[i + j - 1]) = Lower(kw[j])
        /\ WordBoundary(s, i)
        /\ WordBoundary(s, i + Len(kw))

JobTitleWeight == 10
SkillsWeight == 10
ExpertiseWeight == 5
BioWeight == 3

Hit(s, kw) == IF Contains(s, kw) THEN 1 ELSE 0

\* what one pass of the loop body adds to a record's score
KeywordScore(rec, kw) ==
      Hit(rec.JobTitle, kw) * JobTitleWeight
    + Hit(rec.Skills, kw) * SkillsWeight
    + Hit(rec.Expertise, kw) * ExpertiseWeight
    + Hit(rec.Bio, kw) * BioWeight

(***************************************************************************)
(* The department filter, lines 136-137                                    *)
(***************************************************************************)
AllDepartments == <<"A", "l", "l", " ", "D", "e", "p", "a", "r", "t", "m", "e", "n", "t", "s">>

\* the index labels of a directory, in storage order
Ids(d) == [p \in 1..Len(d) |-> p - 1]

\* the comparison made on lower-cased names
DepartmentRowsIgnoreCase(d, f) ==
    LET inDept(id) == LowerText(d[id + 1].Department) = LowerText(f)
    IN  IF f # AllDepartments THEN SelectSeq(Ids(d), inDept) ELSE Ids(d)

\* the filter not applied
DepartmentRowsUnfiltered(d, f) == Ids(d)

\* df[df['Department'] == department_filter], as index labels
DepartmentRows(d, f) ==
    LET inDept(id) == d[id + 1].Department = f
    IN  IF f # AllDepartments THEN SelectSeq(Ids(d), inDept) ELSE Ids(d)

(***************************************************************************)
(* Selection of the candidates, lines 151, 164, 169, 185                   *)
(***************************************************************************)
RecentCount == 10
CandidateCount == 40
RerankMin == 3
FallbackCount == 5

\* df.head(n) on a sequence of index labels
HeadN(ids, n) == SubSeq(ids, 1, IF Len(ids) < n THEN Len(ids) ELSE n)

\* .head(10) left out
RecentRowsAll(ids) == ids

\* df.head(10).index.tolist()
RecentRows(ids) == HeadN(ids, RecentCount)

\* the score > 0 mask left out
PositiveRowsAll(ids, sc) == ids

\* df[df['score'] > 0]: the rows with a positive score, in storage order
PositiveRows(ids, sc) == LET pos(id) == sc[id] > 0 IN SelectSeq(ids, pos)

Reverse(s) == [i \in DOMAIN s |-> s[Len(s) + 1 - i]]

\* The orders in which the sort may leave rows of equal score.  sort_values
\* is called without kind=, which is 'quicksort': not a stable sort, so equal
\* keys may come out in any order (numpy's quicksort partitions a group of
\* more than 16 equal keys out of order; its vectorised variants reorder
\* shorter ones).  Of the orders of a group the storage order and its reverse
\* are taken (every order of a group of two).
TieOrders(g) == {g, Reverse(g)}

MaxScore(ids, sc) == CHOOSE m \in {sc[id] : id \in Range(ids)} :
                        \A id \in Range(ids) : sc[id] <= m

\* sort_values('score', ascending=False): every outcome of the sort
RECURSIVE SortOutcomes(_, _)
SortOutcomes(ids, sc) ==
    IF ids = <<>> THEN {<<>>}
    ELSE LET m == MaxScore(ids, sc)
             top(id) == sc[id] = m
             below(id) == sc[id] < m
         IN  {a \o b : a \in TieOrders(SelectSeq(ids, top)),
                       b \in SortOutcomes(SelectSeq(ids, below), sc)}

\* every value top_candidates may take
CandidateSets(ids, sc) ==
    {HeadN(order, CandidateCount) : order \in SortOutcomes(PositiveRows(ids, sc), sc)}

\* >= in place of >
ShouldRerankAtLeast(m, n) == m /\ n >= RerankMin

\* if model and len(top_candidates) > 3
ShouldRerank(m, n) == m /\ n > RerankMin

\* top_candidates.head(5).index.tolist()
FallbackRows(cands) == HeadN(cands, FallbackCount)

(***************************************************************************)
(* Reading the model's answer, lines 179-180                               *)
(***************************************************************************)
\* re.findall(r'\d+', text): the maximal runs of digits, left to right
RECURSIVE DigitRuns(_, _, _)
DigitRuns(text, i, cur) ==
    IF i > Len(text) THEN (IF cur = <<>> THEN <<>> ELSE <<cur>>)
    ELSE IF IsDigit(text[i]) THEN DigitRuns(text, i + 1, Append(cur, text[i]))
    ELSE (IF cur = <<>> THEN <<>> ELSE <<cur>>) \o DigitRuns(text, i + 1, <<>>)

FindAllDigits(text) == DigitRuns(text, 1, <<>>)

DigitValue(c) == (CHOOSE i \in DOMAIN Digits : Digits[i] = c) - 1

\* int(n) of a run of digits within the conversion limit
RECURSIVE IntOf(_)
IntOf(run) ==
    IF run = <<>> THEN 0
    ELSE 10 * IntOf(SubSeq(run, 1, Len(run) - 1)) + DigitValue(run[Len(run)])

TooLong(run) == LongRun \in Range(run)

\* int(n) raises ValueError for some run: the interpreter limits the length
\* of a decimal string it converts
IntRaises(text) == \E k \in DOMAIN FindAllDigits(text) : TooLong(FindAllDigits(text)[k])

\* [i for i in indices if i in top_candidates.index].  Where the interpreter
\* has no conversion limit a run that holds LongRun converts to an integer
\* above every index label, which the filter drops.
RECURSIVE ValidOf(_, _)
ValidOf(runs, cands) ==
    IF runs = <<>> THEN <<>>
    ELSE IF ~TooLong(Head(runs)) /\ IntOf(Head(runs)) \in Range(cands)
         THEN <<IntOf(Head(runs))>> \o ValidOf(Tail(runs), cands)
         ELSE ValidOf(Tail(runs), cands)

\* the membership test left out
RECURSIVE AllOf(_)
AllOf(runs) ==
    IF runs = <<>> THEN <<>>
    ELSE IF ~TooLong(Head(runs))
         THEN <<IntOf(Head(runs))>> \o AllOf(Tail(runs))
         ELSE AllOf(Tail(runs))

ValidIndicesUnfiltered(text, cands) == AllOf(FindAllDigits(text))

\* the candidates the answer names, taken in the candidates' own order
ValidIndicesByCandidateOrder(text, cands) ==
    LET named(id) == id \in Range(ValidOf(FindAllDigits(text), cands))
    IN  SelectSeq(cands, named)

ValidIndices(text, cands) == ValidOf(FindAllDigits(text), cands)

\* no try/except around the call
OnExceptionPropagate == "raised"

\* except: pass (lines 182-183) leads to the return of line 185
OnException == "fallback"

(***************************************************************************)
(* The inputs of a call                                                    *)
(***************************************************************************)
MaxDir == 42
MaxResponse == 3

None == "<None>"

Eng == <<"E", "n", "g">>
EngLower == <<"e", "n", "g">>
Sales == <<"S", "a", "l", "e", "s">>
HR == <<"H", "R">>

T_none == <<>>
T_java == <<"J", "a", "v", "a">>
T_js == <<"J", "a", "v", "a", "S", "c", "r", "i", "p", "t">>
T_sql == <<"S", "Q", "L", ",", " ", "j", "a", "v", "a", "_", "8">>

Texts == {T_none, T_java, T_js, T_sql}

\* the form is submitted with a non-empty query only (line 218)
Queries == { <<"?", "!">>,
             <<"W", "h", "o", " ", "c", "a", "n", " ", "h", "e", "l", "p", "?">>,
             <<"j", "a", "v", "a">>,
             <<"J", "a", "v", "a", " ", "e", "x", "p", "e", "r", "t", ",", " ",
               "J", "A", "V", "A", "!">>,
             <<"a", "v">>,
             <<"s", "q", "l", " ", "j", "a", "v", "a", "s", "c", "r", "i", "p", "t">> }

Filters == {AllDepartments, Eng, HR}

Rec(d, t, s, e, b) == [Department |-> d, JobTitle |-> t, Skills |-> s, Expertise |-> e, Bio |-> b]

Records == {Rec(Eng, t, s, e, b) : t \in Texts, s \in Texts, e \in Texts, b \in Texts}

\* the records the longer directories are made of
KindA == Rec(Eng, T_java, T_java, T_none, T_none)
KindB == Rec(Eng, T_js, T_sql, T_java, T_none)
KindC == Rec(Sales, T_none, T_java, T_none, T_java)
KindD == Rec(EngLower, T_java, T_none, T_none, T_none)
KindE == Rec(Eng, T_none, T_js, T_none, T_none)

Layouts == { <<KindA>>, <<KindC>>, <<KindD>>, <<KindE>>,
             <<KindA, KindB>>, <<KindC, KindA>>, <<KindD, KindA>>,
             <<KindE, KindB>> }

\* a directory of n records that repeats a layout
Roster(layout, n) == [p \in 1..n |-> layout[((p - 1) % Len(layout)) + 1]]

\* the sizes around the cut-offs of lines 151, 164, 169 and 185
Sizes == {n \in 0..MaxDir :
            \/ n <= FallbackCount + 1
            \/ n >= RecentCount /\ n <= RecentCount + 1
            \/ n >= CandidateCount}

Directories == {<<r>> : r \in Records} \cup {Roster(l, n) : l \in Layouts, n \in Sizes}

ResponseChars == {"0", "1", ",", LongRun}

RECURSIVE TextsUpTo(_)
TextsUpTo(n) ==
    IF n = 0 THEN {<<>>}
    ELSE LET shorter == TextsUpTo(n - 1)
         IN  shorter \cup {Append(t, c) : t \in shorter, c \in ResponseChars}

Responses == TextsUpTo(MaxResponse)

NoResponse == [status |-> "none", text |-> <<>>]

(***************************************************************************)
(* search_logic                                                            *)
(***************************************************************************)
Row(id) == df[id + 1]

\* return ids, msg at the given line of app.py
Return(line, ids, msg) ==
    /\ result' = ids
    /\ message' = msg
    /\ returned_at' = line
    /\ pc' = "done"

Running == UNCHANGED <<result, message, returned_at>>

Init ==
    /\ df \in Directories
    /\ query \in Queries
    /\ model \in BOOLEAN
    /\ department_filter \in Filters
    /\ pc = "filter"
    /\ rows = <<>>
    /\ keywords = <<>>
    /\ kwi = 0
    /\ score = <<>>
    /\ top_candidates = <<>>
    /\ calls = 0
    /\ response = NoResponse
    /\ result = <<>>
    /\ message = None
    /\ returned_at = 0

\* lines 136-139
FilterDepartment ==
    /\ pc = "filter"
    /\ rows' = DepartmentRows(df, department_filter)
    /\ IF rows' = <<>>
       THEN Return(139, <<>>, "No matches in this department.")
       ELSE pc' = "tokenize" /\ Running
    /\ UNCHANGED <<df, query, model, department_filter, keywords, kwi, score,
                   top_candidates, calls, response>>

\* lines 143-154
Tokenize ==
    /\ pc = "tokenize"
    /\ keywords' = Keywords(query)
    /\ IF keywords' = <<>>
       THEN /\ Return(151, RecentRows(rows), "Showing recent employees.")
            /\ UNCHANGED <<score, kwi>>
       ELSE /\ score' = [id \in Range(rows) |-> 0]
            /\ kwi' = 1
            /\ pc' = "score"
            /\ Running
    /\ UNCHANGED <<df, query, model, department_filter, rows, top_candidates,
                   calls, response>>

\* lines 155-161, one pass of the loop
ScoreKeyword ==
    /\ pc = "score"
    /\ score' = [id \in DOMAIN score |-> score[id] + KeywordScore(Row(id), keywords[kwi])]
    /\ kwi' = kwi + 1
    /\ pc' = IF kwi = Len(keywords) THEN "select" ELSE "score"
    /\ UNCHANGED <<df, query, model, department_filter, rows, keywords,
                   top_candidates, calls, response, result, message, returned_at>>

\* lines 164-169
SelectCandidates ==
    /\ pc = "select"
    /\ top_candidates' \in CandidateSets(rows, score)
    /\ IF top_candidates' = <<>>
       THEN Return(166, <<>>, "No direct keyword matches found.")
       ELSE /\ pc' = IF ShouldRerank(model, Len(top_candidates'))
                     THEN "rerank" ELSE "fallback"
            /\ Running
    /\ UNCHANGED <<df, query, model, department_filter, rows, keywords, kwi,
                   score, calls, response>>

\* lines 171-178: the call returns a text
GenerateContent ==
    /\ pc = "rerank"
    /\ calls' = calls + 1
    /\ \E t \in Responses : response' = [status |-> "text", text |-> t]
    /\ pc' = "parse"
    /\ UNCHANGED <<df, query, model, department_filter, rows, keywords, kwi,
                   score, top_candidates, result, message, returned_at>>

\* lines 178, 182-183: the call, or reading response.text, raises
GenerateContentRaises ==
    /\ pc = "rerank"
    /\ calls' = calls + 1
    /\ response' = [status |-> "raised", text |-> <<>>]
    /\ pc' = OnException
    /\ UNCHANGED <<df, query, model, department_filter, rows, keywords, kwi,
                   score, top_candidates, result, message, returned_at>>

\* lines 179-183; limited: the interpreter limits the length of the decimal
\* strings int() converts
ParseResponse ==
    /\ pc = "parse"
    /\ \E limited \in BOOLEAN :
          IF limited /\ IntRaises(response.text)
          THEN pc' = OnException /\ Running
          ELSE LET valid_indices == ValidIndices(response.text, top_candidates)
               IN  IF valid_indices # <<>>
                   THEN Return(181, valid_indices, None)
                   ELSE pc' = "fallback" /\ Running
    /\ UNCHANGED <<df, query, model, department_filter, rows, keywords, kwi,
                   score, top_candidates, calls, response>>

\* line 185
Fallback ==
    /\ pc = "fallback"
    /\ Return(185, FallbackRows(top_candidates), None)
    /\ UNCHANGED <<df, query, model, department_filter, rows, keywords, kwi,
                   score, top_candidates, calls, response>>

Next ==
    \/ FilterDepartment
    \/ Tokenize
    \/ ScoreKeyword
    \/ SelectCandidates
    \/ GenerateContent
    \/ GenerateContentRaises
    \/ ParseResponse
    \/ Fallback

Spec == Init /\ [][Next]_vars

(***************************************************************************)
(* What the properties speak of, stated on the arguments and the text of    *)
(* the answer rather than through the operators of search_logic            *)
(***************************************************************************)
Min(a, b) == IF a < b THEN a ELSE b

\* the record with this id passes the department filter
Passes(id) ==
    \/ department_filter = AllDepartments
    \/ df[id + 1].Department = department_filter

PassingIds == {id \in 0..(Len(df) - 1) : Passes(id)}

\* s holds the first n members of the set S of ids, in ascending order
IsFirstOf(s, n, S) ==
    /\ \A i, j \in DOMAIN s : i < j => s[i] < s[j]
    /\ \A id \in S : id \in Range(s) <=> Cardinality({x \in S : x < id}) < n
    /\ Range(s) \subseteq S

\* s is the first Min(n, Len(t)) entries of t
IsPrefixOf(s, n, t) ==
    /\ Len(s) = Min(n, Len(t))
    /\ \A i \in DOMAIN s : s[i] = t[i]

\* the words of a text: its maximal runs of word characters, lower-cased
WordStarts(s) == {i \in DOMAIN s : IsWordChar(s[i]) /\ (i = 1 \/ ~IsWordChar(s[i - 1]))}

WordEnd(s, i) == CHOOSE j \in i..Len(s) :
                    /\ \A k \in i..j : IsWordChar(s[k])
                    /\ j = Len(s) \/ ~IsWordChar(s[j + 1])

WordAt(s, i) == LowerText(SubSeq(s, i, WordEnd(s, i)))

WordsOf(s) == {WordAt(s, i) : i \in WordStarts(s)}

\* the query has no word that is not a stop-word
NoKeywordQuery == \A i \in WordStarts(query) : WordAt(query, i) \in stop_words

\* the score the weight table gives a record for a sequence of tokens
TokenWeight(rec, tok) ==
      (IF tok \in WordsOf(rec.JobTitle) THEN 10 ELSE 0)
    + (IF tok \in WordsOf(rec.Skills) THEN 10 ELSE 0)
    + (IF tok \in WordsOf(rec.Expertise) THEN 5 ELSE 0)
    + (IF tok \in WordsOf(rec.Bio) THEN 3 ELSE 0)

RECURSIVE TableScore(_, _)
TableScore(rec, toks) ==
    IF toks = <<>> THEN 0
    ELSE TokenWeight(rec, Head(toks)) + TableScore(rec, Tail(toks))

\* the integers written in a text, left to right: (start, end) of each
\* maximal run of digits
RunStarts(t) == {i \in DOMAIN t : IsDigit(t[i]) /\ (i = 1 \/ ~IsDigit(t[i - 1]))}

RunEnd(t, i) == CHOOSE j \in i..Len(t) :
                   /\ \A k \in i..j : IsDigit(t[k])
                   /\ j = Len(t) \/ ~IsDigit(t[j + 1])

NthStart(t, n) == CHOOSE i \in RunStarts(t) : Cardinality({x \in RunStarts(t) : x < i}) = n - 1

RECURSIVE Pow10(_)
Pow10(n) == IF n = 0 THEN 1 ELSE 10 * Pow10(n - 1)

RECURSIVE Number(_, _, _)
Number(t, i, j) ==
    IF i > j THEN 0
    ELSE DigitValue(t[i]) * Pow10(j - i) + Number(t, i + 1, j)

HasLongRun(t) == \E i \in DOMAIN t : t[i] = LongRun

RunIsLong(t, i) == \E k \in i..RunEnd(t, i) : t[k] = LongRun

\* the n-th integer of the text is the id of a candidate
NthIsCandidate(t, n, cands) ==
    LET i == NthStart(t, n)
    IN  ~RunIsLong(t, i) /\ Number(t, i, RunEnd(t, i)) \in Range(cands)

\* the integers of the text that are candidate ids, in the order of the text
RECURSIVE CandidateIntsFrom(_, _, _)
CandidateIntsFrom(t, n, cands) ==
    IF n > Cardinality(RunStarts(t)) THEN <<>>
    ELSE IF NthIsCandidate(t, n, cands)
         THEN <<Number(t, NthStart(t, n), RunEnd(t, NthStart(t, n)))>>
              \o CandidateIntsFrom(t, n + 1, cands)
         ELSE CandidateIntsFrom(t, n + 1, cands)

CandidateInts(t, cands) == CandidateIntsFrom(t, 1, cands)

\* the text writes an integer that is no candidate id
NamesNonCandidate(t, cands) ==
    \E i \in RunStarts(t) :
        ~RunIsLong(t, i) /\ Number(t, i, RunEnd(t, i)) \notin Range(cands)

\* the rows with a positive score
Positive == {id \in DOMAIN score : score[id] > 0}

\* the candidates have just been selected
Selected == (pc \in {"rerank", "fallback"} /\ calls = 0) \/ returned_at = 166

(***************************************************************************)
(* C1                                                                      *)
(***************************************************************************)
\* C1 as stated: search_logic never returns a non-empty id sequence together
\* with a non-null message (its result is ids with a null message, no ids
\* with a message, or no ids with a null message).
C1_ThreeShapes ==
    pc = "done" =>
        \/ result # <<>> /\ message = None
        \/ result = <<>> /\ message # None
        \/ result = <<>> /\ message = None

\* C1 amended: the result has one of the three shapes, or it is a non-empty
\* id sequence with the message "Showing recent employees.", which is
\* returned only for a query without a keyword.
C1_ShapesWithRecent ==
    pc = "done" =>
        \/ result # <<>> /\ message = None
        \/ result = <<>> /\ message # None
        \/ result = <<>> /\ message = None
        \/ result # <<>> /\ message = "Showing recent employees." /\ NoKeywordQuery

C1_Witness ==
    /\ pc = "done"
    /\ result # <<>>
    /\ message = "Showing recent employees."
    /\ department_filter # AllDepartments

(***************************************************************************)
(* C2                                                                      *)
(***************************************************************************)
\* C2 as stated: for every query without a keyword and every department
\* filter the result is the first 10 records of the filtered directory in
\* storage order with the message "Showing recent employees.".
C2_RecentForEveryFilter ==
    pc = "done" /\ NoKeywordQuery =>
        /\ IsFirstOf(result, 10, PassingIds)
        /\ message = "Showing recent employees."

\* C2 amended: the same, for a filtered directory that is not empty (an
\* empty one gives the message "No matches in this department.").
C2_RecentWhenDepartmentNonEmpty ==
    pc = "done" /\ NoKeywordQuery /\ PassingIds # {} =>
        /\ IsFirstOf(result, 10, PassingIds)
        /\ message = "Showing recent employees."

C2_Witness ==
    /\ pc = "done"
    /\ NoKeywordQuery
    /\ \E i \in DOMAIN query : IsWordChar(query[i])
    /\ department_filter # AllDepartments
    /\ Cardinality(PassingIds) > 10
    /\ Cardinality(PassingIds) < Len(df)
    /\ Len(result) = 10

(***************************************************************************)
(* C3                                                                      *)
(***************************************************************************)
\* C3: when the result is the one the re-rank step returns, every id of it
\* is the id of a candidate, whatever the text of the answer.
C3_RerankWithinCandidates ==
    returned_at = 181 => Range(result) \subseteq Range(top_candidates)

C3_Witness ==
    /\ returned_at = 181
    /\ NamesNonCandidate(response.text, top_candidates)
    /\ Len(response.text) > Len(result)

(***************************************************************************)
(* C4                                                                      *)
(***************************************************************************)
\* the re-rank gives nothing to use
NoUsableRerank ==
    \/ ~model
    \/ Len(top_candidates) <= 3
    \/ response.status = "raised"
    \/ response.status = "text" /\ CandidateInts(response.text, top_candidates) = <<>>

\* C4: with a non-empty candidate set and no usable re-rank, search_logic
\* raises nothing and returns the first min(5, n) candidates in their order
\* with a null message, never more than 5 ids.
C4_FallbackTopFive ==
    /\ pc # "raised"
    /\ pc = "done" /\ top_candidates # <<>> /\ NoUsableRerank =>
          /\ IsPrefixOf(result, 5, top_candidates)
          /\ Len(result) <= 5
          /\ message = None

C4_Witness ==
    /\ pc = "done"
    /\ response.status = "raised"
    /\ Len(top_candidates) > 5
    /\ Len(result) = 5

(***************************************************************************)
(* C5                                                                      *)
(***************************************************************************)
\* C5: when the filter is not "All Departments" and no record has exactly
\* that Department, the result is no ids with the message "No matches in this
\* department.", whatever the query; nothing is raised and the model is not
\* called.
C5_UnknownDepartment ==
    /\ pc # "raised"
    /\ department_filter # AllDepartments
       /\ (\A p \in DOMAIN df : df[p].Department # department_filter) =>
          /\ calls = 0
          /\ pc \in {"filter", "done"}
          /\ pc = "done" =>
                /\ result = <<>>
                /\ message = "No matches in this department."

C5_Witness ==
    /\ pc = "done"
    /\ department_filter = Eng
    /\ df # <<>>
    /\ \A p \in DOMAIN df : df[p].Department = EngLower
    /\ model
    /\ NoKeywordQuery
    /\ message = "No matches in this department."

(***************************************************************************)
(* C6                                                                      *)
(***************************************************************************)
\* C6: a record's score is the sum, over the occurrences of the tokens, of
\* 10 for a whole word of Job Title, 10 for one of Skills, 5 for one of
\* Expertise and 3 for one of Bio; a token that is only part of a longer
\* word of a field adds nothing for it.  (During the loop: over the tokens
\* scored so far.)
C6_ScoreIsWeightTable ==
    pc \in {"score", "select"} =>
        \A id \in DOMAIN score :
            score[id] = TableScore(Row(id), SubSeq(keywords, 1, kwi - 1))

C6_Witness ==
    /\ pc = "select"
    /\ Len(keywords) = 2
    /\ keywords[1] = keywords[2]
    /\ \E id \in DOMAIN score :
          /\ Row(id).JobTitle = T_java
          /\ Row(id).Skills = T_js
          /\ Row(id).Expertise = T_sql
          /\ Row(id).Bio = T_java
          /\ score[id] = 26

(***************************************************************************)
(* C7                                                                      *)
(***************************************************************************)
\* a comes before b when sorted by descending score with ties in storage order
StableBefore(a, b) == score[a] > score[b] \/ (score[a] = score[b] /\ a < b)

\* C7 as stated: the candidate set is the first min(40, k) of the k rows of
\* positive score, by descending score, rows of equal score in storage order.
C7_StableTopForty ==
    Selected =>
        /\ Len(top_candidates) = Min(40, Cardinality(Positive))
        /\ Range(top_candidates) \subseteq Positive
        /\ \A i, j \in DOMAIN top_candidates :
              i < j => StableBefore(top_candidates[i], top_candidates[j])
        /\ \A id \in Positive \ Range(top_candidates) :
              \A i \in DOMAIN top_candidates : StableBefore(top_candidates[i], id)

\* C7 amended: the candidate set is the first min(40, k) of the k rows of
\* positive score in an order of descending score; rows of equal score come
\* in no particular order.  It has at most 40 entries and no row of score 0.
C7_TopFortyByScore ==
    Selected =>
        /\ Len(top_candidates) = Min(40, Cardinality(Positive))
        /\ Len(top_candidates) <= 40
        /\ Range(top_candidates) \subseteq Positive
        /\ \A i, j \in DOMAIN top_candidates :
              i < j => /\ top_candidates[i] # top_candidates[j]
                       /\ score[top_candidates[i]] >= score[top_candidates[j]]
        /\ \A id \in Positive \ Range(top_candidates) :
              \A i \in DOMAIN top_candidates : score[top_candidates[i]] >= score[id]

C7_Witness ==
    /\ Selected
    /\ Cardinality(Positive) > 40
    /\ Len(top_candidates) = 40
    /\ score[top_candidates[1]] > score[top_candidates[40]]
    /\ \E i \in 1..39 : top_candidates[i] > top_candidates[i + 1]

(***************************************************************************)
(* C8                                                                      *)
(***************************************************************************)
\* C8: in one execution the model is called at most once, and only with a
\* model handle, a non-empty filtered directory, a query with a keyword and
\* more than 3 candidates.
C8_CalledOnceWhenWorthwhile ==
    \/ calls = 0
    \/ /\ calls = 1
       /\ model
       /\ Len(top_candidates) > 3
       /\ \E id \in 0..(Len(df) - 1) : Passes(id)
       /\ ~NoKeywordQuery

C8_Witness ==
    /\ pc = "done"
    /\ calls = 1
    /\ returned_at = 185
    /\ Len(top_candidates) = 4

C10_ResultPassesFilter ==
    pc = "done" =>
        \A i \in DOMAIN result :
            /\ result[i] \in 0..(Len(df) - 1)
            /\ Passes(result[i])

C10_Witness ==
    /\ returned_at = 181
    /\ department_filter = Eng
    /\ \E i \in RunStarts(response.text) :
          /\ ~RunIsLong(response.text, i)
          /\ Number(response.text, i, RunEnd(response.text, i)) < Len(df)
          /\ ~Passes(Number(response.text, i, RunEnd(response.text, i)))

====
